---- MODULE Spec2Model ----
(***************************************************************************)
(* HOST driver (src/host.c) and CHIP emulator (src/chip_emulator.c) of the *)
(* shared-memory packet transport declared in src/shared.h: two byte rings *)
(* in simulated_shared_ram (TX at offset 0, RX right behind it), the seven *)
(* bus registers, and the four local indices.  Every handler is one atomic *)
(* action, as in the single-threaded simulation loop of host_main_loop.    *)
(***************************************************************************)
EXTENDS Integers, Sequences, FiniteSets, TLC

\* ------------------------------------------------------------ constants
TX_BUFFER_SIZE == 4096
RX_BUFFER_SIZE == 4096
PACKET_LENGTH_FIELD_SIZE == 2
TX_LOW_WATERMARK_THRESHOLD == TX_BUFFER_SIZE \div 4
RX_HIGH_WATERMARK_THRESHOLD == RX_BUFFER_SIZE \div 4
TOTAL_SHARED_MEMORY_SIZE == TX_BUFFER_SIZE + RX_BUFFER_SIZE

\* Offsets of the two rings inside simulated_shared_ram
\* (TX_BUFFER_START_ADDR - SHARED_RAM_BASE_ADDR, RX_BUFFER_START_ADDR - SHARED_RAM_BASE_ADDR).
tx_buffer_ptr == 0
rx_buffer_ptr == tx_buffer_ptr + TX_BUFFER_SIZE

\* Register slots: (addr - CHIP_BASE_ADDR) / 4.
CHIP_REG_TX_TAIL_PTR == 0
CHIP_REG_RX_HEAD_PTR == 1
CHIP_REG_HOST_TX_HEAD_PUB == 2
CHIP_REG_HOST_RX_TAIL_PUB == 3
CHIP_REG_INT_STATUS == 4
CHIP_REG_INT_CLEAR == 5
CHIP_REG_INT_ENABLE == 6

CHIP_INT_RX_DATA_READY_BIT == 1
CHIP_INT_TX_SPACE_AVAIL_BIT == 2
CHIP_INT_ERROR_BIT == 4

\* Widths of uint16_t and uint8_t.
UINT16 == 65536
UINT8 == 256

\* uint32_t.  TLC's integers are 32-bit signed, so a uint32_t value v is
\* written as the integer congruent to it modulo 2^32 in [-2^31, 2^31):
\* 0xFFFFFFFF is -1, and + and - of such values wrap as uint32_t does as long
\* as the sum stays in that interval (it does for every input below).
UINT32_MAX == 0 - 1
\* a > b as unsigned 32-bit values.
GtU32(a, b) == IF (a < 0) = (b < 0) THEN a > b ELSE a < 0

\* ------------------------------------------------------------ bounds
\* Number of frames written into the two rings together: successful
\* host_chip_send_packet calls plus frames chip_emulator_generate_rx produces.
MaxFrames == 3
\* Number of frames chip_emulator_generate_rx produces in the runs that fill
\* the RX ring (SpecRx).
MaxRxFrames == 40
\* Number of bytes the HOST finds in the RX ring when it drains in the runs
\* with re-initialization (SpecInit).
MaxDrainBytes == 512
\* Number of frames written into the two rings together in those runs.
MaxInitFrames == 2

\* ------------------------------------------------------------ inputs
\* A payload is given by its length and its first byte; byte i is
\* (first + i) mod 256, so {1,..,8} is <<8, 1>>.
DataByte(seed, i) == (seed + i) % UINT8

\* The caller's buffer for such a payload, as a sequence of bytes.  Of a
\* buffer longer than the modelled memory only the part that a copy can land
\* in that memory is kept.
Buffer(len, seed) ==
    LET kept == IF len < 0 \/ len > 2 * (TOTAL_SHARED_MEMORY_SIZE + 1)
                THEN 2 * (TOTAL_SHARED_MEMORY_SIZE + 1)
                ELSE len
    IN  [i \in 1..kept |-> DataByte(seed, i - 1)]

\* (len, first byte) pairs handed to host_chip_send_packet.  The last one is
\* a uint32_t length for which len + 2 wraps.
TxInputs ==
    { <<0, 0>>, <<1, 7>>, <<8, 1>>, <<600, 1>>,
      <<4091, 3>>, <<4092, 5>>, <<4094, 0>>, <<4095, 0>>,
      <<UINT32_MAX, 0>> }

\* (len, first byte) pairs drawn by chip_emulator_generate_rx:
\* len = (rand() % 100) + 10.
RxInputs == { <<10, 1>>, <<109, 2>> }

\* The one length drawn in the runs that fill the RX ring: 39 frames of
\* 103 + 2 bytes bring chip_rx_head to RX_BUFFER_SIZE - 1.
RxDeepInputs == { <<103, 4>> }

\* The buffers of all inputs.
Data == [d \in TxInputs \cup RxInputs \cup RxDeepInputs |-> Buffer(d[1], d[2])]

VARIABLES
    host_tx_head,               \* host.c: where HOST will write next
    host_rx_tail,               \* host.c: where HOST last read from
    chip_tx_tail,               \* chip_emulator.c: where CHIP reads from TX
    chip_rx_head,               \* chip_emulator.c: where CHIP writes to RX
    simulated_chip_registers,   \* the 7 bus registers
    simulated_shared_ram,       \* TX ring, RX ring, and the byte behind them:
                                \* the byte at offset a is simulated_shared_ram[a + 1]
    fault,                      \* a copy ran off the shared RAM: the program is dead
    sent,                       \* history: payloads of the sends that returned 0
    consumed,                   \* history: frames the CHIP TX consumer consumed
    rx_produced,                \* history: frames the CHIP wrote to the RX ring
    rx_delivered,               \* history: frames the HOST drained from the RX ring
    irq_log,                    \* history of chip_raise_interrupt calls:
                                \*   tx: calls with TX_SPACE_AVAIL so far,
                                \*   rx: calls with RX_DATA_READY since the last
                                \*       host_chip_process_received_data,
                                \*   frames: RX frames produced since then
    host_op,                    \* the operation the HOST is in the middle of, and
    chip_op                     \* the one the CHIP is in the middle of, when the
                                \* operations are taken one memory access at a
                                \* time (SpecSteps); idle otherwise

vars == << host_tx_head, host_rx_tail, chip_tx_tail, chip_rx_head,
           simulated_chip_registers, simulated_shared_ram, fault,
           sent, consumed, rx_produced, rx_delivered, irq_log,
           host_op, chip_op >>

\* An operation in progress: where it is (pc), its arguments (len, seed; for
\* a consumer len is the length it parsed), the index register of the peer as
\* it read it (peer), a consumer's current tail (cur) and the number of
\* payload bytes a producer has copied (i).
IdleOp == [pc |-> "idle", len |-> 0, seed |-> 0, peer |-> 0, cur |-> 0, i |-> 0]

\* ------------------------------------------------------------ helpers
BUS_READ_REG(regs, r) == regs[r]
BUS_WRITE_REG(regs, r, val) == [regs EXCEPT ![r] = val]

\* (v & bit) != 0 and v | bit, for a one-bit mask.
BitIsSet(v, bit) == (v \div bit) % 2 = 1
BitOr(v, bit) == IF BitIsSet(v, bit) THEN v ELSE v + bit

\* The byte of memory at offset a.
Byte(ram, a) == ram[a + 1]

\* *(uint16_t*)(ram + addr) = v on a little-endian target: two adjacent bytes
\* of memory, whatever ring offset addr is.
StoreU16(ram, addr, v) ==
    [ram EXCEPT ![addr + 1] = v % UINT8, ![addr + 2] = (v \div UINT8) % UINT8]

\* *(uint16_t*)(ram + addr)
LoadU16(ram, addr) == Byte(ram, addr) + UINT8 * Byte(ram, addr + 1)

\* The copy of n bytes (a uint32_t size) to dst leaves simulated_shared_ram.
RunsOff(dst, n) == n < 0 \/ dst + n > TOTAL_SHARED_MEMORY_SIZE

\* memcpy(ram + dst, data + src, n), as far as it lands in the modelled memory.
memcpy(ram, dst, data, src, n) ==
    LET m == IF RunsOff(dst, n) THEN Len(ram) - dst ELSE n
    IN  SubSeq(ram, 1, dst) \o SubSeq(data, src + 1, src + m)
            \o SubSeq(ram, dst + m + 1, Len(ram))

\* The 2-byte length a reader parses at ring offset off of the ring at base.
ReadHeader(ram, base, off, size) ==
    IF off + PACKET_LENGTH_FIELD_SIZE > size
    THEN Byte(ram, base + off) + UINT8 * Byte(ram, base)
    ELSE LoadU16(ram, base + off)

\* The len payload bytes of the frame at ring offset off, read wrap-aware.
Payload(ram, base, off, size, len) ==
    LET start == (off + PACKET_LENGTH_FIELD_SIZE) % size
    IN  IF start + len > size
        THEN SubSeq(ram, base + start + 1, base + size)
                 \o SubSeq(ram, base + 1, base + (start + len - size))
        ELSE SubSeq(ram, base + start + 1, base + start + len)

\* What a consumer sees as a frame at off, for the histories: the input
\* <<len, first byte>> whose buffer the payload bytes are, <<len, -1>> when
\* they are the buffer of no input.
Observed(ram, base, off, size, len) ==
    LET bytes == Payload(ram, base, off, size, len)
    IN  IF \E d \in DOMAIN Data : Data[d] = bytes
        THEN CHOOSE d \in DOMAIN Data : Data[d] = bytes
        ELSE <<len, 0 - 1>>

\* ------------------------------------------------------------ Init
\* main(): memset of the shared RAM, host_chip_driver_init, chip_emulator_init.
Init ==
    /\ host_tx_head = 0
    /\ host_rx_tail = 0
    /\ chip_tx_tail = 0
    /\ chip_rx_head = 0
    /\ simulated_chip_registers =
          [r \in 0..6 |->
              IF r = CHIP_REG_INT_CLEAR THEN UINT32_MAX
              ELSE IF r = CHIP_REG_INT_ENABLE
                   THEN CHIP_INT_RX_DATA_READY_BIT + CHIP_INT_TX_SPACE_AVAIL_BIT
                        + CHIP_INT_ERROR_BIT
                   ELSE 0]
    /\ simulated_shared_ram = [a \in 1..(TOTAL_SHARED_MEMORY_SIZE + 1) |-> 0]
    /\ fault = FALSE
    /\ sent = << >>
    /\ consumed = << >>
    /\ rx_produced = << >>
    /\ rx_delivered = << >>
    /\ irq_log = [tx |-> 0, rx |-> 0, frames |-> 0]
    /\ host_op = IdleOp
    /\ chip_op = IdleOp

\* ------------------------------------------------------------ initialization
\* The state of the program when main() starts and after its memset: the
\* statics of host.c and chip_emulator.c are zero, and so is every register.
InitStatic ==
    /\ host_tx_head = 0
    /\ host_rx_tail = 0
    /\ chip_tx_tail = 0
    /\ chip_rx_head = 0
    /\ simulated_chip_registers = [r \in 0..6 |-> 0]
    /\ simulated_shared_ram = [a \in 1..(TOTAL_SHARED_MEMORY_SIZE + 1) |-> 0]
    /\ fault = FALSE
    /\ sent = << >>
    /\ consumed = << >>
    /\ rx_produced = << >>
    /\ rx_delivered = << >>
    /\ irq_log = [tx |-> 0, rx |-> 0, frames |-> 0]
    /\ host_op = IdleOp
    /\ chip_op = IdleOp

\* The indices and registers the two initializations work on.
Indices ==
    [ host_tx_head |-> host_tx_head, host_rx_tail |-> host_rx_tail,
      chip_tx_tail |-> chip_tx_tail, chip_rx_head |-> chip_rx_head,
      regs |-> simulated_chip_registers ]

\* Faulty variant of HostInit: the loop that zeroes the registers is left out.
HostInit_NoZeroLoop(st) ==
    LET cleared == BUS_WRITE_REG(st.regs, CHIP_REG_INT_CLEAR, UINT32_MAX)
        pubTx == BUS_WRITE_REG(cleared, CHIP_REG_HOST_TX_HEAD_PUB, 0)
        pubRx == BUS_WRITE_REG(pubTx, CHIP_REG_HOST_RX_TAIL_PUB, 0)
    IN  [st EXCEPT !.host_tx_head = 0,
                   !.host_rx_tail = 0,
                   !.regs = BUS_WRITE_REG(pubRx, CHIP_REG_INT_ENABLE,
                                CHIP_INT_RX_DATA_READY_BIT
                                + CHIP_INT_TX_SPACE_AVAIL_BIT
                                + CHIP_INT_ERROR_BIT)]

\* host_chip_driver_init run on st: the local indices, the loop over all
\* seven registers, INT_CLEAR, the two published indices, INT_ENABLE.
HostInit(st) ==
    LET zeroed == [r \in 0..6 |-> 0]
        cleared == BUS_WRITE_REG(zeroed, CHIP_REG_INT_CLEAR, UINT32_MAX)
        pubTx == BUS_WRITE_REG(cleared, CHIP_REG_HOST_TX_HEAD_PUB, 0)
        pubRx == BUS_WRITE_REG(pubTx, CHIP_REG_HOST_RX_TAIL_PUB, 0)
    IN  [st EXCEPT !.host_tx_head = 0,
                   !.host_rx_tail = 0,
                   !.regs = BUS_WRITE_REG(pubRx, CHIP_REG_INT_ENABLE,
                                CHIP_INT_RX_DATA_READY_BIT
                                + CHIP_INT_TX_SPACE_AVAIL_BIT
                                + CHIP_INT_ERROR_BIT)]

\* chip_emulator_init run on st.
ChipInit(st) ==
    [st EXCEPT !.chip_tx_tail = 0,
               !.chip_rx_head = 0,
               !.regs = BUS_WRITE_REG(BUS_WRITE_REG(st.regs, CHIP_REG_TX_TAIL_PTR, 0),
                                      CHIP_REG_RX_HEAD_PTR, 0)]

\* The indices and registers become those of st; the shared RAM is not touched.
Becomes(st) ==
    /\ host_tx_head' = st.host_tx_head
    /\ host_rx_tail' = st.host_rx_tail
    /\ chip_tx_tail' = st.chip_tx_tail
    /\ chip_rx_head' = st.chip_rx_head
    /\ simulated_chip_registers' = st.regs
    /\ UNCHANGED << simulated_shared_ram, fault, sent, consumed, rx_produced,
                    rx_delivered, irq_log, host_op, chip_op >>

host_chip_driver_init == ~fault /\ Becomes(HostInit(Indices))

chip_emulator_init == ~fault /\ Becomes(ChipInit(Indices))

\* ------------------------------------------------------------ HOST TX
\* Faulty variant of SpaceAvailable: no byte is kept back to tell a full ring
\* from an empty one.
SpaceAvailable_NoReserve(head, tail, size) ==
    IF head >= tail THEN size - (head - tail) ELSE tail - head

\* Faulty variant of SpaceAvailable: the consumer's tail is not looked at.
SpaceAvailable_IgnoresTail(head, tail, size) == size - head - 1

\* space_available of host_chip_send_packet / chip_emulator_generate_rx.
SpaceAvailable(head, tail, size) ==
    IF head >= tail THEN size - (head - tail) - 1 ELSE (tail - head) - 1

\* Faulty variant of SendWrite: the offset behind the header is not reduced
\* modulo TX_BUFFER_SIZE.
SendWrite_OffsetNotWrapped(ram, head, len, data) ==
    LET withHeader == StoreU16(ram, tx_buffer_ptr + head, len % UINT16)
        current_offset == head + PACKET_LENGTH_FIELD_SIZE
    IN  memcpy(withHeader, tx_buffer_ptr + current_offset, data, 0, len)

\* The header store and the payload copy of host_chip_send_packet.
SendWrite(ram, head, len, data) ==
    LET withHeader == StoreU16(ram, tx_buffer_ptr + head, len % UINT16)
        current_offset == (head + PACKET_LENGTH_FIELD_SIZE) % TX_BUFFER_SIZE
    IN  IF GtU32(current_offset + len, TX_BUFFER_SIZE)
        THEN LET first_part_len == TX_BUFFER_SIZE - current_offset
             IN  memcpy(memcpy(withHeader, tx_buffer_ptr + current_offset, data, 0,
                               first_part_len),
                        tx_buffer_ptr, data, first_part_len, len - first_part_len)
        ELSE memcpy(withHeader, tx_buffer_ptr + current_offset, data, 0, len)

\* One of the copies of SendWrite runs off the shared RAM.
SendFaults(head, len) ==
    LET current_offset == (head + PACKET_LENGTH_FIELD_SIZE) % TX_BUFFER_SIZE
    IN  IF GtU32(current_offset + len, TX_BUFFER_SIZE)
        THEN RunsOff(tx_buffer_ptr, len - (TX_BUFFER_SIZE - current_offset))
        ELSE RunsOff(tx_buffer_ptr + current_offset, len)

\* The value host_chip_send_packet returns when called with a length in the
\* current state, if it returns: -1 and -2 from its two early returns, 0 from
\* its end.
SendReturn(len) ==
    LET total_write_len == len + PACKET_LENGTH_FIELD_SIZE
        tail == BUS_READ_REG(simulated_chip_registers, CHIP_REG_TX_TAIL_PTR)
        space_available == SpaceAvailable(host_tx_head, tail, TX_BUFFER_SIZE)
    IN  IF GtU32(total_write_len, TX_BUFFER_SIZE) THEN 0 - 1
        ELSE IF GtU32(total_write_len, space_available) THEN 0 - 2
        ELSE 0

host_chip_send_packet(len, seed) ==
    LET total_write_len == len + PACKET_LENGTH_FIELD_SIZE
        new_head == (host_tx_head + total_write_len) % TX_BUFFER_SIZE
    IN  /\ ~fault
        /\ Len(sent) + Len(rx_produced) < MaxFrames \/ SendReturn(len) # 0
        /\ IF SendReturn(len) # 0
           THEN UNCHANGED << host_tx_head, simulated_chip_registers,
                             simulated_shared_ram, fault, sent >>
           ELSE IF SendFaults(host_tx_head, len)
           THEN /\ simulated_shared_ram' =
                       SendWrite(simulated_shared_ram, host_tx_head, len,
                                 Data[<<len, seed>>])
                /\ fault' = TRUE
                /\ UNCHANGED << host_tx_head, simulated_chip_registers, sent >>
           ELSE /\ simulated_shared_ram' =
                       SendWrite(simulated_shared_ram, host_tx_head, len,
                                 Data[<<len, seed>>])
                /\ host_tx_head' = new_head
                /\ simulated_chip_registers' =
                       BUS_WRITE_REG(simulated_chip_registers,
                                     CHIP_REG_HOST_TX_HEAD_PUB, new_head)
                /\ sent' = Append(sent, <<len, seed>>)
                /\ UNCHANGED fault
        /\ UNCHANGED << host_rx_tail, chip_tx_tail, chip_rx_head,
                        consumed, rx_produced, rx_delivered, irq_log,
                        host_op, chip_op >>

Send == \E d \in TxInputs : host_chip_send_packet(d[1], d[2])

\* ------------------------------------------------------------ CHIP
chip_raise_interrupt(regs, bit) ==
    BUS_WRITE_REG(regs, CHIP_REG_INT_STATUS,
                  BitOr(BUS_READ_REG(regs, CHIP_REG_INT_STATUS), bit))

\* data_available of chip_emulator_process_tx, bytes_available of
\* host_chip_process_received_data.
DataAvailable(head, tail, size) ==
    IF head >= tail THEN head - tail ELSE size - tail + head

\* space_freed of chip_emulator_process_tx.
SpaceFreed(tail, head_pub) ==
    IF tail >= head_pub THEN TX_BUFFER_SIZE - (tail - head_pub) ELSE head_pub - tail

\* chip_emulator_process_tx gets past its two early returns: a whole frame,
\* by the length it parses, lies between its tail and the published head.
TxFrameReady ==
    LET host_tx_head_pub ==
            BUS_READ_REG(simulated_chip_registers, CHIP_REG_HOST_TX_HEAD_PUB)
        data_available == DataAvailable(host_tx_head_pub, chip_tx_tail, TX_BUFFER_SIZE)
    IN  /\ data_available >= PACKET_LENGTH_FIELD_SIZE
        /\ data_available >=
               ReadHeader(simulated_shared_ram, tx_buffer_ptr, chip_tx_tail,
                          TX_BUFFER_SIZE) + PACKET_LENGTH_FIELD_SIZE

chip_emulator_process_tx ==
    LET host_tx_head_pub ==
            BUS_READ_REG(simulated_chip_registers, CHIP_REG_HOST_TX_HEAD_PUB)
        packet_payload_len ==
            ReadHeader(simulated_shared_ram, tx_buffer_ptr, chip_tx_tail, TX_BUFFER_SIZE)
        total_packet_len == packet_payload_len + PACKET_LENGTH_FIELD_SIZE
        new_tail == (chip_tx_tail + total_packet_len) % TX_BUFFER_SIZE
        published ==
            BUS_WRITE_REG(simulated_chip_registers, CHIP_REG_TX_TAIL_PTR, new_tail)
    IN  /\ ~fault
        /\ IF ~TxFrameReady
           THEN UNCHANGED << chip_tx_tail, simulated_chip_registers, consumed, irq_log >>
           ELSE /\ chip_tx_tail' = new_tail
                /\ IF SpaceFreed(new_tail, host_tx_head_pub)
                          >= TX_LOW_WATERMARK_THRESHOLD
                   THEN /\ simulated_chip_registers' =
                               chip_raise_interrupt(published,
                                                    CHIP_INT_TX_SPACE_AVAIL_BIT)
                        /\ irq_log' = [irq_log EXCEPT !.tx = @ + 1]
                   ELSE /\ simulated_chip_registers' = published
                        /\ UNCHANGED irq_log
                /\ consumed' =
                       Append(consumed,
                              Observed(simulated_shared_ram, tx_buffer_ptr, chip_tx_tail,
                                       TX_BUFFER_SIZE, packet_payload_len))
        /\ UNCHANGED << host_tx_head, host_rx_tail, chip_rx_head, simulated_shared_ram,
                        fault, sent, rx_produced, rx_delivered, host_op, chip_op >>

\* The header store and the payload loops of chip_emulator_generate_rx.
GenerateWrite(ram, head, len, data) ==
    LET withHeader == StoreU16(ram, rx_buffer_ptr + head, len % UINT16)
        current_offset == (head + PACKET_LENGTH_FIELD_SIZE) % RX_BUFFER_SIZE
    IN  IF current_offset + len > RX_BUFFER_SIZE
        THEN LET first_part_len == RX_BUFFER_SIZE - current_offset
             IN  memcpy(memcpy(withHeader, rx_buffer_ptr + current_offset, data, 0,
                               first_part_len),
                        rx_buffer_ptr, data, first_part_len, len - first_part_len)
        ELSE memcpy(withHeader, rx_buffer_ptr + current_offset, data, 0, len)

chip_emulator_generate_rx(simulated_payload_len, seed) ==
    LET host_rx_tail_pub ==
            BUS_READ_REG(simulated_chip_registers, CHIP_REG_HOST_RX_TAIL_PUB)
        space_available == SpaceAvailable(chip_rx_head, host_rx_tail_pub, RX_BUFFER_SIZE)
        total_packet_len == simulated_payload_len + PACKET_LENGTH_FIELD_SIZE
        new_head == (chip_rx_head + total_packet_len) % RX_BUFFER_SIZE
        published ==
            BUS_WRITE_REG(simulated_chip_registers, CHIP_REG_RX_HEAD_PTR, new_head)
    IN  /\ ~fault
        /\ IF space_available < total_packet_len
           THEN UNCHANGED << chip_rx_head, simulated_chip_registers,
                             simulated_shared_ram, rx_produced, irq_log >>
           ELSE /\ simulated_shared_ram' =
                       GenerateWrite(simulated_shared_ram, chip_rx_head,
                                     simulated_payload_len,
                                     Data[<<simulated_payload_len, seed>>])
                /\ chip_rx_head' = new_head
                /\ IF DataAvailable(new_head, host_rx_tail_pub, RX_BUFFER_SIZE)
                          >= RX_HIGH_WATERMARK_THRESHOLD
                   THEN /\ simulated_chip_registers' =
                               chip_raise_interrupt(published,
                                                    CHIP_INT_RX_DATA_READY_BIT)
                        /\ irq_log' = [irq_log EXCEPT !.rx = @ + 1, !.frames = @ + 1]
                   ELSE /\ simulated_chip_registers' = published
                        /\ irq_log' = [irq_log EXCEPT !.frames = @ + 1]
                /\ rx_produced' = Append(rx_produced, <<simulated_payload_len, seed>>)
        /\ UNCHANGED << host_tx_head, host_rx_tail, chip_tx_tail, fault,
                        sent, consumed, rx_delivered, host_op, chip_op >>

GenerateRx ==
    /\ Len(sent) + Len(rx_produced) < MaxFrames
    /\ \E d \in RxInputs : chip_emulator_generate_rx(d[1], d[2])

\* ------------------------------------------------------------ HOST RX
\* The while loop of host_chip_process_received_data from current_rx_tail:
\* the tail it ends at, the frames it hands up, and how it ends: "empty" by
\* its condition, "no_header" and "partial" by its two breaks, named after
\* what it prints there.
RECURSIVE DrainLoop(_, _, _, _)
DrainLoop(ram, current_rx_tail, rx_head, frames) ==
    LET bytes_available == DataAvailable(rx_head, current_rx_tail, RX_BUFFER_SIZE)
        packet_payload_len ==
            ReadHeader(ram, rx_buffer_ptr, current_rx_tail, RX_BUFFER_SIZE)
        total_packet_len == packet_payload_len + PACKET_LENGTH_FIELD_SIZE
    IN  IF current_rx_tail = rx_head
        THEN [tail |-> current_rx_tail, frames |-> frames, stop |-> "empty"]
        ELSE IF bytes_available < PACKET_LENGTH_FIELD_SIZE
             THEN [tail |-> current_rx_tail, frames |-> frames, stop |-> "no_header"]
        ELSE IF bytes_available < total_packet_len
             THEN [tail |-> current_rx_tail, frames |-> frames, stop |-> "partial"]
        ELSE DrainLoop(ram, (current_rx_tail + total_packet_len) % RX_BUFFER_SIZE,
                       rx_head,
                       Append(frames,
                              Observed(ram, rx_buffer_ptr, current_rx_tail,
                                       RX_BUFFER_SIZE, packet_payload_len)))

\* host_chip_process_received_data run on registers `regs`.
ProcessReceived(regs) ==
    LET d == DrainLoop(simulated_shared_ram, host_rx_tail,
                       BUS_READ_REG(regs, CHIP_REG_RX_HEAD_PTR), << >>)
    IN  /\ simulated_chip_registers' =
               BUS_WRITE_REG(regs, CHIP_REG_HOST_RX_TAIL_PUB, d.tail)
        /\ host_rx_tail' = d.tail
        /\ rx_delivered' = rx_delivered \o d.frames
        /\ irq_log' = [irq_log EXCEPT !.rx = 0, !.frames = 0]

host_chip_process_received_data ==
    /\ ~fault
    /\ ProcessReceived(simulated_chip_registers)
    /\ UNCHANGED << host_tx_head, chip_tx_tail, chip_rx_head, simulated_shared_ram,
                    fault, sent, consumed, rx_produced, host_op, chip_op >>

\* The INT_CLEAR writes of host_chip_irq_handler that follow the RX branch.
IrqTail(regs, int_status) ==
    LET afterTx == IF BitIsSet(int_status, CHIP_INT_TX_SPACE_AVAIL_BIT)
                   THEN BUS_WRITE_REG(regs, CHIP_REG_INT_CLEAR,
                                      CHIP_INT_TX_SPACE_AVAIL_BIT)
                   ELSE regs
    IN  IF BitIsSet(int_status, CHIP_INT_ERROR_BIT)
        THEN BUS_WRITE_REG(afterTx, CHIP_REG_INT_CLEAR, CHIP_INT_ERROR_BIT)
        ELSE afterTx

host_chip_irq_handler ==
    LET int_status == BUS_READ_REG(simulated_chip_registers, CHIP_REG_INT_STATUS)
        cleared == BUS_WRITE_REG(simulated_chip_registers, CHIP_REG_INT_CLEAR,
                                 CHIP_INT_RX_DATA_READY_BIT)
    IN  /\ ~fault
        /\ IF BitIsSet(int_status, CHIP_INT_RX_DATA_READY_BIT)
           THEN LET d == DrainLoop(simulated_shared_ram, host_rx_tail,
                                   BUS_READ_REG(cleared, CHIP_REG_RX_HEAD_PTR), << >>)
                IN  /\ simulated_chip_registers' =
                           IrqTail(BUS_WRITE_REG(cleared, CHIP_REG_HOST_RX_TAIL_PUB,
                                                 d.tail), int_status)
                    /\ host_rx_tail' = d.tail
                    /\ rx_delivered' = rx_delivered \o d.frames
                    /\ irq_log' = [irq_log EXCEPT !.rx = 0, !.frames = 0]
           ELSE /\ simulated_chip_registers' =
                       IrqTail(simulated_chip_registers, int_status)
                /\ UNCHANGED << host_rx_tail, rx_delivered, irq_log >>
        /\ UNCHANGED << host_tx_head, chip_tx_tail, chip_rx_head, simulated_shared_ram,
                        fault, sent, consumed, rx_produced, host_op, chip_op >>

\* ------------------------------------------------------------ Spec
Next ==
    \/ Send
    \/ chip_emulator_process_tx
    \/ GenerateRx
    \/ host_chip_process_received_data
    \/ host_chip_irq_handler

Spec == Init /\ [][Next]_vars

\* The same runs with host_main_loop calling host_chip_irq_handler again and
\* again (once per cycle): the handler is not left out for ever when it has
\* something to do.  A call that finds no bit set changes nothing.
SpecLive == Spec /\ WF_vars(host_chip_irq_handler)

\* The RX direction on its own, long enough for the RX ring to reach the
\* watermark, to fill up and to wrap: the CHIP produces frames and the HOST
\* runs its interrupt handler, which is the only caller of
\* host_chip_process_received_data in host.c.
GenerateRxDeep ==
    /\ Len(rx_produced) < MaxRxFrames
    /\ \E d \in RxDeepInputs : chip_emulator_generate_rx(d[1], d[2])

NextRx ==
    \/ GenerateRxDeep
    \/ host_chip_irq_handler

SpecRx == Init /\ [][NextRx]_vars

\* The program from the start of main(), with the two initializations as
\* operations that either side may run at any time, also between and before
\* the other operations.  Once the consumers have handed up more than
\* MaxInitFrames frames, nothing is initialized and the CHIP consumes no
\* more; and the HOST does not drain an RX ring that an initialization of the
\* CHIP alone has left looking full of frames.
InitBudget == Len(consumed) + Len(rx_delivered) <= MaxInitFrames

DrainBudget ==
    DataAvailable(BUS_READ_REG(simulated_chip_registers, CHIP_REG_RX_HEAD_PTR),
                  host_rx_tail, RX_BUFFER_SIZE) <= MaxDrainBytes

\* The traffic of these runs: short payloads only.
SendShort ==
    /\ Len(sent) + Len(rx_produced) < MaxInitFrames
    /\ \E d \in { <<0, 0>>, <<8, 1>> } : host_chip_send_packet(d[1], d[2])

GenerateRxShort ==
    /\ Len(sent) + Len(rx_produced) < MaxInitFrames
    /\ chip_emulator_generate_rx(10, 1)

NextInit ==
    \/ InitBudget /\ host_chip_driver_init
    \/ InitBudget /\ chip_emulator_init
    \/ SendShort
    \/ InitBudget /\ chip_emulator_process_tx
    \/ GenerateRxShort
    \/ DrainBudget /\ host_chip_process_received_data
    \/ DrainBudget /\ host_chip_irq_handler

SpecInit == InitStatic /\ [][NextInit]_vars

\* ------------------------------------------------------------ steps
\* The four ring operations taken one access to shared memory or to a
\* register at a time, the HOST and the CHIP interleaving freely.  host_op
\* and chip_op hold the locals of the operation each side is in.

\* Number of frames written into the two rings together in these runs.
MaxStepFrames == 2

\* Where these runs start: the state of Spec after the sends of 0 and of 4091
\* bytes and the consumption of both, with the TX ring empty and its head and
\* tail at TX_BUFFER_SIZE - 1.
StepsStart ==
    /\ host_tx_head = TX_BUFFER_SIZE - 1
    /\ host_rx_tail = 0
    /\ chip_tx_tail = TX_BUFFER_SIZE - 1
    /\ chip_rx_head = 0
    /\ simulated_chip_registers =
          [r \in 0..6 |->
              IF r = CHIP_REG_INT_CLEAR THEN UINT32_MAX
              ELSE IF r = CHIP_REG_INT_ENABLE
                   THEN CHIP_INT_RX_DATA_READY_BIT + CHIP_INT_TX_SPACE_AVAIL_BIT
                        + CHIP_INT_ERROR_BIT
              ELSE IF r = CHIP_REG_INT_STATUS THEN CHIP_INT_TX_SPACE_AVAIL_BIT
              ELSE IF r \in {CHIP_REG_HOST_TX_HEAD_PUB, CHIP_REG_TX_TAIL_PTR}
                   THEN TX_BUFFER_SIZE - 1
                   ELSE 0]
    /\ simulated_shared_ram =
          SendWrite(SendWrite([a \in 1..(TOTAL_SHARED_MEMORY_SIZE + 1) |-> 0],
                              0, 0, Data[<<0, 0>>]),
                    2, 4091, Data[<<4091, 3>>])
    /\ fault = FALSE
    /\ sent = << <<0, 0>>, <<4091, 3>> >>
    /\ consumed = << <<0, 0>>, <<4091, 3>> >>
    /\ rx_produced = << >>
    /\ rx_delivered = << >>
    /\ irq_log = [tx |-> 2, rx |-> 0, frames |-> 0]
    /\ host_op = IdleOp
    /\ chip_op = IdleOp

StepBudget == Len(sent) + Len(rx_produced) < Len(<<0, 4091>>) + MaxStepFrames

\* The ring offset payload byte i of a frame goes to, in the wrap-aware copy
\* of both producers: current_offset is the offset behind the header.
CopyOffset(head, size, len, i) ==
    LET current_offset == (head + PACKET_LENGTH_FIELD_SIZE) % size
        first_part_len == size - current_offset
    IN  IF current_offset + len > size /\ i >= first_part_len
        THEN i - first_part_len
        ELSE current_offset + i

\* One byte store into shared memory.
StoreU8(ram, addr, v) == [ram EXCEPT ![addr + 1] = v]

\* host_chip_send_packet, its steps: the read of TX_TAIL_PTR with the two
\* checks, the header store, one payload byte, the publication.
SendBegin(len, seed) ==
    /\ ~fault
    /\ host_op.pc = "idle"
    /\ SendReturn(len) = 0
    /\ host_op' = [IdleOp EXCEPT !.pc = "send_header", !.len = len, !.seed = seed,
                                 !.peer = BUS_READ_REG(simulated_chip_registers,
                                                       CHIP_REG_TX_TAIL_PTR)]
    /\ UNCHANGED << host_tx_head, host_rx_tail, chip_tx_tail, chip_rx_head,
                    simulated_chip_registers, simulated_shared_ram, fault,
                    sent, consumed, rx_produced, rx_delivered, irq_log, chip_op >>

SendHeader ==
    /\ host_op.pc = "send_header"
    /\ simulated_shared_ram' =
           StoreU16(simulated_shared_ram, tx_buffer_ptr + host_tx_head,
                    host_op.len % UINT16)
    /\ host_op' = [host_op EXCEPT !.pc = IF host_op.len = 0 THEN "send_publish"
                                                          ELSE "send_copy"]
    /\ UNCHANGED << host_tx_head, host_rx_tail, chip_tx_tail, chip_rx_head,
                    simulated_chip_registers, fault,
                    sent, consumed, rx_produced, rx_delivered, irq_log, chip_op >>

SendCopyByte ==
    /\ host_op.pc = "send_copy"
    /\ simulated_shared_ram' =
           StoreU8(simulated_shared_ram,
                   tx_buffer_ptr + CopyOffset(host_tx_head, TX_BUFFER_SIZE,
                                              host_op.len, host_op.i),
                   Data[<<host_op.len, host_op.seed>>][host_op.i + 1])
    /\ host_op' = [host_op EXCEPT !.i = @ + 1,
                                  !.pc = IF host_op.i + 1 = host_op.len
                                         THEN "send_publish" ELSE "send_copy"]
    /\ UNCHANGED << host_tx_head, host_rx_tail, chip_tx_tail, chip_rx_head,
                    simulated_chip_registers, fault,
                    sent, consumed, rx_produced, rx_delivered, irq_log, chip_op >>

SendPublish ==
    LET new_head == (host_tx_head + host_op.len + PACKET_LENGTH_FIELD_SIZE)
                        % TX_BUFFER_SIZE
    IN  /\ host_op.pc = "send_publish"
        /\ host_tx_head' = new_head
        /\ simulated_chip_registers' =
               BUS_WRITE_REG(simulated_chip_registers, CHIP_REG_HOST_TX_HEAD_PUB,
                             new_head)
        /\ sent' = Append(sent, <<host_op.len, host_op.seed>>)
        /\ host_op' = IdleOp
        /\ UNCHANGED << host_rx_tail, chip_tx_tail, chip_rx_head,
                        simulated_shared_ram, fault,
                        consumed, rx_produced, rx_delivered, irq_log, chip_op >>

\* chip_emulator_process_tx, its steps: the read of HOST_TX_HEAD_PUB, the
\* read of the header, the read of the payload, the publication of the tail,
\* the interrupt.
TxBegin ==
    LET host_tx_head_pub ==
            BUS_READ_REG(simulated_chip_registers, CHIP_REG_HOST_TX_HEAD_PUB)
    IN  /\ ~fault
        /\ chip_op.pc = "idle"
        /\ DataAvailable(host_tx_head_pub, chip_tx_tail, TX_BUFFER_SIZE)
               >= PACKET_LENGTH_FIELD_SIZE
        /\ chip_op' = [IdleOp EXCEPT !.pc = "tx_header", !.peer = host_tx_head_pub]
        /\ UNCHANGED << host_tx_head, host_rx_tail, chip_tx_tail, chip_rx_head,
                        simulated_chip_registers, simulated_shared_ram, fault,
                        sent, consumed, rx_produced, rx_delivered, irq_log, host_op >>

TxHeader ==
    LET packet_payload_len ==
            ReadHeader(simulated_shared_ram, tx_buffer_ptr, chip_tx_tail, TX_BUFFER_SIZE)
    IN  /\ chip_op.pc = "tx_header"
        /\ chip_op' =
               IF DataAvailable(chip_op.peer, chip_tx_tail, TX_BUFFER_SIZE)
                      < packet_payload_len + PACKET_LENGTH_FIELD_SIZE
               THEN IdleOp
               ELSE [chip_op EXCEPT !.pc = "tx_payload", !.len = packet_payload_len]
        /\ UNCHANGED << host_tx_head, host_rx_tail, chip_tx_tail, chip_rx_head,
                        simulated_chip_registers, simulated_shared_ram, fault,
                        sent, consumed, rx_produced, rx_delivered, irq_log, host_op >>

TxPayload ==
    /\ chip_op.pc = "tx_payload"
    /\ consumed' = Append(consumed,
                          Observed(simulated_shared_ram, tx_buffer_ptr, chip_tx_tail,
                                   TX_BUFFER_SIZE, chip_op.len))
    /\ chip_op' = [chip_op EXCEPT !.pc = "tx_publish"]
    /\ UNCHANGED << host_tx_head, host_rx_tail, chip_tx_tail, chip_rx_head,
                    simulated_chip_registers, simulated_shared_ram, fault,
                    sent, rx_produced, rx_delivered, irq_log, host_op >>

TxPublish ==
    LET new_tail == (chip_tx_tail + chip_op.len + PACKET_LENGTH_FIELD_SIZE)
                        % TX_BUFFER_SIZE
    IN  /\ chip_op.pc = "tx_publish"
        /\ chip_tx_tail' = new_tail
        /\ simulated_chip_registers' =
               BUS_WRITE_REG(simulated_chip_registers, CHIP_REG_TX_TAIL_PTR, new_tail)
        /\ chip_op' = [chip_op EXCEPT !.pc = "tx_raise"]
        /\ UNCHANGED << host_tx_head, host_rx_tail, chip_rx_head,
                        simulated_shared_ram, fault,
                        sent, consumed, rx_produced, rx_delivered, irq_log, host_op >>

TxRaise ==
    /\ chip_op.pc = "tx_raise"
    /\ IF SpaceFreed(chip_tx_tail, chip_op.peer) >= TX_LOW_WATERMARK_THRESHOLD
       THEN /\ simulated_chip_registers' =
                   chip_raise_interrupt(simulated_chip_registers,
                                        CHIP_INT_TX_SPACE_AVAIL_BIT)
            /\ irq_log' = [irq_log EXCEPT !.tx = @ + 1]
       ELSE UNCHANGED << simulated_chip_registers, irq_log >>
    /\ chip_op' = IdleOp
    /\ UNCHANGED << host_tx_head, host_rx_tail, chip_tx_tail, chip_rx_head,
                    simulated_shared_ram, fault,
                    sent, consumed, rx_produced, rx_delivered, host_op >>

\* chip_emulator_generate_rx, its steps: the read of HOST_RX_TAIL_PUB with
\* the space check, the header store, one payload byte, the publication of
\* the head, the interrupt.
GenBegin(simulated_payload_len, seed) ==
    LET host_rx_tail_pub ==
            BUS_READ_REG(simulated_chip_registers, CHIP_REG_HOST_RX_TAIL_PUB)
    IN  /\ ~fault
        /\ chip_op.pc = "idle"
        /\ SpaceAvailable(chip_rx_head, host_rx_tail_pub, RX_BUFFER_SIZE)
               >= simulated_payload_len + PACKET_LENGTH_FIELD_SIZE
        /\ chip_op' = [IdleOp EXCEPT !.pc = "gen_header",
                                     !.len = simulated_payload_len, !.seed = seed,
                                     !.peer = host_rx_tail_pub]
        /\ UNCHANGED << host_tx_head, host_rx_tail, chip_tx_tail, chip_rx_head,
                        simulated_chip_registers, simulated_shared_ram, fault,
                        sent, consumed, rx_produced, rx_delivered, irq_log, host_op >>

GenHeader ==
    /\ chip_op.pc = "gen_header"
    /\ simulated_shared_ram' =
           StoreU16(simulated_shared_ram, rx_buffer_ptr + chip_rx_head,
                    chip_op.len % UINT16)
    /\ chip_op' = [chip_op EXCEPT !.pc = "gen_copy"]
    /\ UNCHANGED << host_tx_head, host_rx_tail, chip_tx_tail, chip_rx_head,
                    simulated_chip_registers, fault,
                    sent, consumed, rx_produced, rx_delivered, irq_log, host_op >>

GenCopyByte ==
    /\ chip_op.pc = "gen_copy"
    /\ simulated_shared_ram' =
           StoreU8(simulated_shared_ram,
                   rx_buffer_ptr + CopyOffset(chip_rx_head, RX_BUFFER_SIZE,
                                              chip_op.len, chip_op.i),
                   Data[<<chip_op.len, chip_op.seed>>][chip_op.i + 1])
    /\ chip_op' = [chip_op EXCEPT !.i = @ + 1,
                                  !.pc = IF chip_op.i + 1 = chip_op.len
                                         THEN "gen_publish" ELSE "gen_copy"]
    /\ UNCHANGED << host_tx_head, host_rx_tail, chip_tx_tail, chip_rx_head,
                    simulated_chip_registers, fault,
                    sent, consumed, rx_produced, rx_delivered, irq_log, host_op >>

GenPublish ==
    LET new_head == (chip_rx_head + chip_op.len + PACKET_LENGTH_FIELD_SIZE)
                        % RX_BUFFER_SIZE
    IN  /\ chip_op.pc = "gen_publish"
        /\ chip_rx_head' = new_head
        /\ simulated_chip_registers' =
               BUS_WRITE_REG(simulated_chip_registers, CHIP_REG_RX_HEAD_PTR, new_head)
        /\ rx_produced' = Append(rx_produced, <<chip_op.len, chip_op.seed>>)
        /\ irq_log' = [irq_log EXCEPT !.frames = @ + 1]
        /\ chip_op' = [chip_op EXCEPT !.pc = "gen_raise"]
        /\ UNCHANGED << host_tx_head, host_rx_tail, chip_tx_tail,
                        simulated_shared_ram, fault,
                        sent, consumed, rx_delivered, host_op >>

GenRaise ==
    /\ chip_op.pc = "gen_raise"
    /\ IF DataAvailable(chip_rx_head, chip_op.peer, RX_BUFFER_SIZE)
              >= RX_HIGH_WATERMARK_THRESHOLD
       THEN /\ simulated_chip_registers' =
                   chip_raise_interrupt(simulated_chip_registers,
                                        CHIP_INT_RX_DATA_READY_BIT)
            /\ irq_log' = [irq_log EXCEPT !.rx = @ + 1]
       ELSE UNCHANGED << simulated_chip_registers, irq_log >>
    /\ chip_op' = IdleOp
    /\ UNCHANGED << host_tx_head, host_rx_tail, chip_tx_tail, chip_rx_head,
                    simulated_shared_ram, fault,
                    sent, consumed, rx_produced, rx_delivered, host_op >>

\* host_chip_process_received_data, its steps: the read of RX_HEAD_PTR, the
\* loop condition with the read of a header, the read of a payload, the
\* re-read of RX_HEAD_PTR, the publication of the tail.
DrainBegin ==
    /\ ~fault
    /\ host_op.pc = "idle"
    /\ BUS_READ_REG(simulated_chip_registers, CHIP_REG_RX_HEAD_PTR) # host_rx_tail
    /\ host_op' = [IdleOp EXCEPT !.pc = "drain_header", !.cur = host_rx_tail,
                                 !.peer = BUS_READ_REG(simulated_chip_registers,
                                                       CHIP_REG_RX_HEAD_PTR)]
    /\ UNCHANGED << host_tx_head, host_rx_tail, chip_tx_tail, chip_rx_head,
                    simulated_chip_registers, simulated_shared_ram, fault,
                    sent, consumed, rx_produced, rx_delivered, irq_log, chip_op >>

DrainHeader ==
    LET bytes_available == DataAvailable(host_op.peer, host_op.cur, RX_BUFFER_SIZE)
        packet_payload_len ==
            ReadHeader(simulated_shared_ram, rx_buffer_ptr, host_op.cur, RX_BUFFER_SIZE)
    IN  /\ host_op.pc = "drain_header"
        /\ host_op' =
               IF \/ host_op.cur = host_op.peer
                  \/ bytes_available < PACKET_LENGTH_FIELD_SIZE
                  \/ bytes_available < packet_payload_len + PACKET_LENGTH_FIELD_SIZE
               THEN [host_op EXCEPT !.pc = "drain_publish"]
               ELSE [host_op EXCEPT !.pc = "drain_payload", !.len = packet_payload_len]
        /\ UNCHANGED << host_tx_head, host_rx_tail, chip_tx_tail, chip_rx_head,
                        simulated_chip_registers, simulated_shared_ram, fault,
                        sent, consumed, rx_produced, rx_delivered, irq_log, chip_op >>

DrainPayload ==
    /\ host_op.pc = "drain_payload"
    /\ rx_delivered' = Append(rx_delivered,
                              Observed(simulated_shared_ram, rx_buffer_ptr, host_op.cur,
                                       RX_BUFFER_SIZE, host_op.len))
    /\ host_op' = [host_op EXCEPT !.pc = "drain_reread",
                                  !.cur = (host_op.cur + host_op.len
                                           + PACKET_LENGTH_FIELD_SIZE) % RX_BUFFER_SIZE]
    /\ UNCHANGED << host_tx_head, host_rx_tail, chip_tx_tail, chip_rx_head,
                    simulated_chip_registers, simulated_shared_ram, fault,
                    sent, consumed, rx_produced, irq_log, chip_op >>

DrainReread ==
    /\ host_op.pc = "drain_reread"
    /\ host_op' = [host_op EXCEPT !.pc = "drain_header",
                                  !.peer = BUS_READ_REG(simulated_chip_registers,
                                                        CHIP_REG_RX_HEAD_PTR)]
    /\ UNCHANGED << host_tx_head, host_rx_tail, chip_tx_tail, chip_rx_head,
                    simulated_chip_registers, simulated_shared_ram, fault,
                    sent, consumed, rx_produced, rx_delivered, irq_log, chip_op >>

DrainPublish ==
    /\ host_op.pc = "drain_publish"
    /\ simulated_chip_registers' =
           BUS_WRITE_REG(simulated_chip_registers, CHIP_REG_HOST_RX_TAIL_PUB,
                         host_op.cur)
    /\ host_rx_tail' = host_op.cur
    /\ irq_log' = [irq_log EXCEPT !.rx = 0, !.frames = 0]
    /\ host_op' = IdleOp
    /\ UNCHANGED << host_tx_head, chip_tx_tail, chip_rx_head,
                    simulated_shared_ram, fault,
                    sent, consumed, rx_produced, rx_delivered, chip_op >>

NextSteps ==
    \/ StepBudget /\ SendBegin(1, 7)
    \/ SendHeader
    \/ SendCopyByte
    \/ SendPublish
    \/ TxBegin
    \/ TxHeader
    \/ TxPayload
    \/ TxPublish
    \/ TxRaise
    \/ StepBudget /\ GenBegin(10, 1)
    \/ GenHeader
    \/ GenCopyByte
    \/ GenPublish
    \/ GenRaise
    \/ DrainBegin
    \/ DrainHeader
    \/ DrainPayload
    \/ DrainReread
    \/ DrainPublish

SpecSteps == StepsStart /\ [][NextSteps]_vars

\* The two contexts of the HOST: host_chip_send_packet in the application
\* context, taken step by step, and host_chip_irq_handler, which interrupts
\* it between any two of its steps and runs to its end.  The CHIP produces
\* enough RX frames for the fill level to reach RX_HIGH_WATERMARK_THRESHOLD,
\* and consumes what the HOST sends.
MaxIrqSends == 1
MaxIrqRxFrames == 10

IrqSendBudget == Len(sent) < Len(<<0, 4091>>) + MaxIrqSends

GenerateRxIrq ==
    /\ Len(rx_produced) < MaxIrqRxFrames
    /\ \E d \in RxDeepInputs : chip_emulator_generate_rx(d[1], d[2])

NextIrq ==
    \/ IrqSendBudget /\ SendBegin(1, 7)
    \/ SendHeader
    \/ SendCopyByte
    \/ SendPublish
    \/ host_chip_irq_handler
    \/ GenerateRxIrq
    \/ chip_emulator_process_tx

SpecIrq == StepsStart /\ [][NextIrq]_vars

\* ------------------------------------------------------------ claims
\* Bytes a history of frames takes in a ring: each frame its length plus
\* the 2-byte header.
RECURSIVE FrameBytes(_)
FrameBytes(h) ==
    IF h = << >> THEN 0
    ELSE h[1][1] + PACKET_LENGTH_FIELD_SIZE + FrameBytes(Tail(h))

IsPrefix(a, b) == Len(a) <= Len(b) /\ \A i \in 1..Len(a) : a[i] = b[i]

Reg(r) == BUS_READ_REG(simulated_chip_registers, r)

\* C1: the frames the CHIP TX consumer consumed are, in order, the payloads
\* of the sends that returned 0: same lengths, same bytes, a prefix of the
\* sent sequence.
C1_ConsumedIsPrefixOfSent == IsPrefix(consumed, sent)

StartOfLast(h, size) == FrameBytes(SubSeq(h, 1, Len(h) - 1)) % size

\* C3: framing round-trips at every offset: while the program runs, whenever
\* a reader's tail stands at the offset where the writer of its ring
\* serialized its latest frame, the reader parses that frame's length and its
\* payload bytes.
C3_RoundTrip ==
    ~fault =>
    /\ (sent # << >> /\ chip_tx_tail = StartOfLast(sent, TX_BUFFER_SIZE)) =>
          LET d == sent[Len(sent)]
              len == ReadHeader(simulated_shared_ram, tx_buffer_ptr, chip_tx_tail,
                                TX_BUFFER_SIZE)
          IN  /\ len = d[1]
              /\ Payload(simulated_shared_ram, tx_buffer_ptr, chip_tx_tail,
                         TX_BUFFER_SIZE, len) = Data[d]
    /\ (rx_produced # << >> /\ host_rx_tail = StartOfLast(rx_produced, RX_BUFFER_SIZE)) =>
          LET d == rx_produced[Len(rx_produced)]
              len == ReadHeader(simulated_shared_ram, rx_buffer_ptr, host_rx_tail,
                                RX_BUFFER_SIZE)
          IN  /\ len = d[1]
              /\ Payload(simulated_shared_ram, rx_buffer_ptr, host_rx_tail,
                         RX_BUFFER_SIZE, len) = Data[d]

\* L + 2 > TX_BUFFER_SIZE for the uint32_t value L that len stands for.
ExceedsBuffer(len) == len < 0 \/ len + PACKET_LENGTH_FIELD_SIZE > TX_BUFFER_SIZE

\* C4: a call of host_chip_send_packet with L + 2 > TX_BUFFER_SIZE returns
\* -1 and leaves the shared RAM, host_tx_head and the registers as they were.
C4_TooLargeChangesNothing ==
    [][\A d \in TxInputs :
          (ExceedsBuffer(d[1]) /\ host_chip_send_packet(d[1], d[2])) =>
              /\ SendReturn(d[1]) = 0 - 1
              /\ ~fault'
              /\ UNCHANGED << simulated_shared_ram, host_tx_head,
                              simulated_chip_registers >>]_vars

\* free < L + 2 for the uint32_t value L that len stands for, with free
\* computed from host_tx_head and TX_TAIL_PTR.
LacksSpace(len) ==
    \/ len < 0
    \/ SpaceAvailable(host_tx_head, Reg(CHIP_REG_TX_TAIL_PTR), TX_BUFFER_SIZE)
          < len + PACKET_LENGTH_FIELD_SIZE

\* C5: a call of host_chip_send_packet that gets to compute the free space
\* (its size check let it through) and finds it below L + 2 returns -2 and
\* leaves the shared RAM, host_tx_head and the registers as they were.
C5_NoSpaceChangesNothing ==
    [][\A d \in TxInputs :
          (/\ ~GtU32(d[1] + PACKET_LENGTH_FIELD_SIZE, TX_BUFFER_SIZE)
           /\ LacksSpace(d[1])
           /\ host_chip_send_packet(d[1], d[2])) =>
              /\ SendReturn(d[1]) = 0 - 2
              /\ ~fault'
              /\ UNCHANGED << simulated_shared_ram, host_tx_head,
                              simulated_chip_registers >>]_vars

\* The step is a chip_emulator_process_tx that consumes a frame.
ConsumesFrame == chip_emulator_process_tx /\ consumed' # consumed

\* C6: a send that returned -2 succeeds on a retry once the CHIP has gone on
\* consuming.  Stated on the last frame the CHIP consumes, and for the lengths
\* L <= N - 3 only, whose frame fits the empty ring: if such a send returns -2
\* (which changes nothing), the CHIP then consumes a frame and can consume no
\* more, the same send then returns 0; otherwise the HOST, making no other
\* send, gets -2 for ever.
C6_RetryEventuallySucceeds ==
    [][\A d \in TxInputs :
          (/\ d[1] >= 0
           /\ d[1] <= TX_BUFFER_SIZE - 1 - PACKET_LENGTH_FIELD_SIZE
           /\ SendReturn(d[1]) = 0 - 2
           /\ ConsumesFrame
           /\ ~TxFrameReady') =>
              (SendReturn(d[1]))' = 0]_vars

\* C7: when a send of a 1-byte payload returns -2 (free < 3) and the CHIP
\* then consumes exactly one frame, the same send returns 0.
C7_OneFrameFreesEnough ==
    [][(SendReturn(1) = 0 - 2 /\ ConsumesFrame) => (SendReturn(1))' = 0]_vars

\* C7 amended: when a send of a 1-byte payload returns -2 and the CHIP then
\* consumes exactly one frame whose payload length, as the CHIP reads it, is
\* at least 1, the same send returns 0.
C7_OneNonEmptyFrameFreesEnough ==
    [][(/\ SendReturn(1) = 0 - 2
        /\ ConsumesFrame
        /\ ReadHeader(simulated_shared_ram, tx_buffer_ptr, chip_tx_tail,
                      TX_BUFFER_SIZE) >= 1) => (SendReturn(1))' = 0]_vars

\* C7 witness: one frame of 4093 bytes left 2 bytes free, too few for a
\* 1-byte send; the CHIP has consumed that frame, and the send now fits.
C7_Witness ==
    /\ sent = << <<4091, 3>> >>
    /\ consumed = sent
    /\ SendReturn(1) = 0

\* C8: after every send and every consume the published register equals its
\* owner's local index, HOST_TX_HEAD_PUB is the sum of the sent frame sizes
\* modulo N, and once the CHIP has consumed the k-th sent frame TX_TAIL_PTR is
\* the value HOST_TX_HEAD_PUB had after that frame's send.
C8_PublishedIndices ==
    /\ Reg(CHIP_REG_HOST_TX_HEAD_PUB) = host_tx_head
    /\ host_tx_head = FrameBytes(sent) % TX_BUFFER_SIZE
    /\ Reg(CHIP_REG_TX_TAIL_PTR) = chip_tx_tail
    /\ Len(consumed) <= Len(sent) =>
          Reg(CHIP_REG_TX_TAIL_PTR)
              = FrameBytes(SubSeq(sent, 1, Len(consumed))) % TX_BUFFER_SIZE

\* The bytes {1,..,8} sent from head 4094 lie across the wrap: header 08 00
\* at TX offsets 4094 and 4095, payload at TX offsets 0 to 7.
S2Layout(ram) ==
    /\ Byte(ram, tx_buffer_ptr + TX_BUFFER_SIZE - 2) = 8
    /\ Byte(ram, tx_buffer_ptr + TX_BUFFER_SIZE - 1) = 0
    /\ \A i \in 0..7 : Byte(ram, tx_buffer_ptr + i) = i + 1

\* The step is the send of {1,..,8} with host_tx_head = TX_TAIL_PTR = 4094.
S2Send ==
    /\ host_tx_head = TX_BUFFER_SIZE - 2
    /\ Reg(CHIP_REG_TX_TAIL_PTR) = TX_BUFFER_SIZE - 2
    /\ host_chip_send_packet(8, 1)

\* C9: with host_tx_head = TX_TAIL_PTR = 4094, sending {1,..,8} stores the
\* header bytes 08 00 at TX offsets 4094 and 4095, the payload at TX offsets
\* 0 to 7, and publishes HOST_TX_HEAD_PUB = 10.
C9_PayloadWrapsPublishes10 ==
    [][S2Send =>
           /\ SendReturn(8) = 0
           /\ sent' = Append(sent, <<8, 1>>)
           /\ S2Layout(simulated_shared_ram')
           /\ simulated_chip_registers'[CHIP_REG_HOST_TX_HEAD_PUB] = 10]_vars

\* C9 amended: with host_tx_head = TX_TAIL_PTR = 4094, sending {1,..,8}
\* stores the header bytes 08 00 at TX offsets 4094 and 4095, the payload at
\* TX offsets 0 to 7, and publishes HOST_TX_HEAD_PUB = (4094 + 10) mod 4096,
\* which is 8.
C9_PayloadWrapsPublishes8 ==
    [][S2Send =>
           /\ SendReturn(8) = 0
           /\ sent' = Append(sent, <<8, 1>>)
           /\ S2Layout(simulated_shared_ram')
           /\ simulated_chip_registers'[CHIP_REG_HOST_TX_HEAD_PUB] = 8
           /\ host_tx_head' = 8]_vars

\* C9 witness: {1,..,8} was sent from head 4094 into the empty ring, is laid
\* out across the wrap, and the CHIP has not consumed it yet.
C9_Witness ==
    /\ sent # << >>
    /\ sent[Len(sent)] = <<8, 1>>
    /\ StartOfLast(sent, TX_BUFFER_SIZE) = TX_BUFFER_SIZE - 2
    /\ chip_tx_tail = TX_BUFFER_SIZE - 2
    /\ Reg(CHIP_REG_HOST_TX_HEAD_PUB) = 8
    /\ S2Layout(simulated_shared_ram)

\* C10: a frame started at ring offset N-1 has the low byte of its length at
\* offset N-1 and the high byte at offset 0 of the same ring, its payload
\* from offset 1 on, and the ring's reader reads the length from these two.
C10_LengthFieldWraps ==
    [][/\ \A d \in TxInputs :
            (/\ host_tx_head = TX_BUFFER_SIZE - 1
             /\ host_chip_send_packet(d[1], d[2])
             /\ sent' # sent) =>
                /\ Byte(simulated_shared_ram', tx_buffer_ptr + TX_BUFFER_SIZE - 1)
                       = d[1] % UINT8
                /\ Byte(simulated_shared_ram', tx_buffer_ptr) = d[1] \div UINT8
                /\ \A i \in 1..d[1] :
                       Byte(simulated_shared_ram', tx_buffer_ptr + i) = Data[d][i]
                /\ ReadHeader(simulated_shared_ram', tx_buffer_ptr,
                              TX_BUFFER_SIZE - 1, TX_BUFFER_SIZE) = d[1]
       /\ \A d \in RxInputs :
            (/\ chip_rx_head = RX_BUFFER_SIZE - 1
             /\ chip_emulator_generate_rx(d[1], d[2])
             /\ rx_produced' # rx_produced) =>
                /\ Byte(simulated_shared_ram', rx_buffer_ptr + RX_BUFFER_SIZE - 1)
                       = d[1] % UINT8
                /\ Byte(simulated_shared_ram', rx_buffer_ptr) = d[1] \div UINT8
                /\ \A i \in 1..d[1] :
                       Byte(simulated_shared_ram', rx_buffer_ptr + i) = Data[d][i]
                /\ ReadHeader(simulated_shared_ram', rx_buffer_ptr,
                              RX_BUFFER_SIZE - 1, RX_BUFFER_SIZE) = d[1]]_vars

\* The step is a chip_emulator_generate_rx that writes a frame.
ProducesFrame ==
    /\ \E d \in RxInputs \cup RxDeepInputs : chip_emulator_generate_rx(d[1], d[2])
    /\ rx_produced' # rx_produced

\* RX fill level by the CHIP's head and the tail the HOST published.
RxUsed(head) ==
    DataAvailable(head, Reg(CHIP_REG_HOST_RX_TAIL_PUB), RX_BUFFER_SIZE)

\* C11: a production raises RX_DATA_READY exactly when it brings the RX fill
\* level from below RX_HIGH_WATERMARK to RX_HIGH_WATERMARK or above (once);
\* it raises nothing while the level after it is below the watermark, and
\* nothing when the level was at or above the watermark already.
C11_RaisesOnRisingEdgeOnly ==
    [][ProducesFrame =>
           irq_log'.rx - irq_log.rx =
               IF /\ RxUsed(chip_rx_head) < RX_HIGH_WATERMARK_THRESHOLD
                  /\ RxUsed(chip_rx_head') >= RX_HIGH_WATERMARK_THRESHOLD
               THEN 1 ELSE 0]_vars

\* The step is a call of host_chip_process_received_data, direct or from
\* host_chip_irq_handler.
Drains ==
    \/ host_chip_process_received_data
    \/ /\ host_chip_irq_handler
       /\ BitIsSet(Reg(CHIP_REG_INT_STATUS), CHIP_INT_RX_DATA_READY_BIT)

\* C12: when the HOST drains, the CHIP has called
\* chip_raise_interrupt(RX_DATA_READY) at least once since the previous drain
\* if it produced a frame since then, and at most once per frame produced.
C12_RaisesBetweenDrains ==
    [][Drains =>
           /\ irq_log.frames >= 1 => irq_log.rx >= 1
           /\ irq_log.rx <= irq_log.frames]_vars

\* TX free space by the head the HOST published and a CHIP tail:
\* N - 1 - ((head - tail) mod N).
TxFree(tail) ==
    TX_BUFFER_SIZE - 1
        - ((Reg(CHIP_REG_HOST_TX_HEAD_PUB) - tail) % TX_BUFFER_SIZE)

\* C13: a chip_emulator_process_tx that consumes a frame raises
\* TX_SPACE_AVAIL exactly when the TX free space after the consumption is
\* TX_LOW_WATERMARK or more.
C13_RaisesWhenFreeAtWatermark ==
    [][ConsumesFrame =>
           irq_log'.tx - irq_log.tx =
               IF TxFree(chip_tx_tail') >= TX_LOW_WATERMARK_THRESHOLD
               THEN 1 ELSE 0]_vars

InterruptBits ==
    { CHIP_INT_RX_DATA_READY_BIT, CHIP_INT_TX_SPACE_AVAIL_BIT, CHIP_INT_ERROR_BIT }

\* C14: INT_CLEAR is write-1-to-clear: every bit host_chip_irq_handler finds
\* pending in INT_STATUS, and so writes to INT_CLEAR, is 0 in INT_STATUS when
\* the handler is done (the CHIP raises nothing during the handler), so the
\* next handler invocation does not see it unless the CHIP raised it again.
C14_ClearedBitsLeaveStatus ==
    [][host_chip_irq_handler =>
           \A bit \in InterruptBits :
               BitIsSet(Reg(CHIP_REG_INT_STATUS), bit) =>
                   ~BitIsSet(simulated_chip_registers'[CHIP_REG_INT_STATUS], bit)]_vars

\* C15: from the state the program is in, host_chip_driver_init followed by
\* chip_emulator_init and chip_emulator_init followed by
\* host_chip_driver_init end in the same state, in which the four local
\* indices and the four index registers are 0, INT_STATUS is 0 and INT_ENABLE
\* is RX_DATA_READY | TX_SPACE_AVAIL | ERROR.
C15_InitCommutes ==
    LET hc == ChipInit(HostInit(Indices))
        ch == HostInit(ChipInit(Indices))
    IN  /\ hc = ch
        /\ hc.host_tx_head = 0 /\ hc.host_rx_tail = 0
        /\ hc.chip_tx_tail = 0 /\ hc.chip_rx_head = 0
        /\ \A r \in { CHIP_REG_TX_TAIL_PTR, CHIP_REG_RX_HEAD_PTR,
                       CHIP_REG_HOST_TX_HEAD_PUB, CHIP_REG_HOST_RX_TAIL_PUB,
                       CHIP_REG_INT_STATUS } : hc.regs[r] = 0
        /\ hc.regs[CHIP_REG_INT_ENABLE] =
               CHIP_INT_RX_DATA_READY_BIT + CHIP_INT_TX_SPACE_AVAIL_BIT
               + CHIP_INT_ERROR_BIT

\* C15 witness: after traffic in both directions and a raised interrupt, both
\* initializations have run: every index and index register is 0 again and
\* no interrupt is pending.
C15_Witness ==
    /\ consumed # << >> /\ rx_delivered # << >> /\ irq_log.tx > 0
    /\ Indices = ChipInit(HostInit(Indices))

\* A bit is pending in INT_STATUS; a bit is enabled in INT_ENABLE.
Pending(bit) == BitIsSet(Reg(CHIP_REG_INT_STATUS), bit)
Enabled(bit) == BitIsSet(Reg(CHIP_REG_INT_ENABLE), bit)

\* C16: host_chip_irq_handler acts on a bit only if it is pending and
\* enabled: when RX_DATA_READY is pending but disabled it does not drain, and
\* when no pending bit is enabled it writes no register.
C16_ActsOnEnabledBitsOnly ==
    [][host_chip_irq_handler =>
           /\ (Pending(CHIP_INT_RX_DATA_READY_BIT)
                   /\ ~Enabled(CHIP_INT_RX_DATA_READY_BIT)) =>
                  UNCHANGED << host_rx_tail, rx_delivered, irq_log >>
           /\ (\A bit \in InterruptBits : Pending(bit) => ~Enabled(bit)) =>
                  UNCHANGED simulated_chip_registers]_vars

\* The step is an operation of the HOST; of the CHIP.
HostStep ==
    \/ host_chip_driver_init
    \/ \E d \in TxInputs : host_chip_send_packet(d[1], d[2])
    \/ host_chip_process_received_data
    \/ host_chip_irq_handler

ChipStep ==
    \/ chip_emulator_init
    \/ chip_emulator_process_tx
    \/ \E d \in RxInputs \cup RxDeepInputs : chip_emulator_generate_rx(d[1], d[2])

\* The value of the registers in rs is the same before and after the step.
Untouched(rs) ==
    \A r \in rs : simulated_chip_registers'[r] = simulated_chip_registers[r]

\* C20: no operation of the HOST, initialization included, changes
\* TX_TAIL_PTR, RX_HEAD_PTR or INT_STATUS, and no operation of the CHIP
\* changes HOST_TX_HEAD_PUB, HOST_RX_TAIL_PUB, INT_CLEAR or INT_ENABLE.
C20_SingleWriterPerRegister ==
    [][/\ HostStep => Untouched({ CHIP_REG_TX_TAIL_PTR, CHIP_REG_RX_HEAD_PTR,
                                   CHIP_REG_INT_STATUS })
       /\ ChipStep => Untouched({ CHIP_REG_HOST_TX_HEAD_PUB,
                                   CHIP_REG_HOST_RX_TAIL_PUB,
                                   CHIP_REG_INT_CLEAR, CHIP_REG_INT_ENABLE })]_vars

\* Ring offsets at which the producer of a history started a frame, and the
\* offset behind its last frame, which is its head.
FrameStarts(h, size) ==
    { FrameBytes(SubSeq(h, 1, k)) % size : k \in 0..Len(h) }

\* C17: frames are atomic to the consumer: the tail of each consumer always
\* stands at the start of a frame the producer of its ring wrote, or at the
\* producer's head.
C17_TailsAtFrameStarts ==
    /\ chip_tx_tail \in FrameStarts(sent, TX_BUFFER_SIZE)
    /\ host_rx_tail \in FrameStarts(rx_produced, RX_BUFFER_SIZE)

\* The drain of the current state: DrainLoop from host_rx_tail to RX_HEAD_PTR.
Drain ==
    DrainLoop(simulated_shared_ram, host_rx_tail, Reg(CHIP_REG_RX_HEAD_PTR), << >>)

\* At RX offset tail there is a whole length header and it advertises more
\* than N - 3 bytes, a frame that cannot fit in the ring.
MalformedAt(tail) ==
    /\ DataAvailable(Reg(CHIP_REG_RX_HEAD_PTR), tail, RX_BUFFER_SIZE)
           >= PACKET_LENGTH_FIELD_SIZE
    /\ ReadHeader(simulated_shared_ram, rx_buffer_ptr, tail, RX_BUFFER_SIZE)
           > RX_BUFFER_SIZE - 1 - PACKET_LENGTH_FIELD_SIZE

\* C18: a drain that comes to a length header greater than N - 3 stops there
\* reporting a malformed frame, not a partial one, and leaves host_rx_tail
\* and HOST_RX_TAIL_PUB at that header.
C18_MalformedLengthReported ==
    [][(Drains /\ MalformedAt(Drain.tail)) =>
           /\ Drain.stop = "malformed"
           /\ host_rx_tail' = Drain.tail
           /\ simulated_chip_registers'[CHIP_REG_HOST_RX_TAIL_PUB] = Drain.tail]_vars


\* The ring offsets from tail up to head, head not included.
Region(tail, head, size) ==
    { (tail + k) % size : k \in 0..(DataAvailable(head, tail, size) - 1) }

\* A step leaves the bytes of the ring at base at these offsets as they are.
Keeps(base, offsets) ==
    \A a \in offsets :
        Byte(simulated_shared_ram', base + a) = Byte(simulated_shared_ram, base + a)

\* The frame a producer publishes with this step is in the ring at base from
\* offset head on, as a consumer reads it.
Stored(base, head, size, d) ==
    /\ ReadHeader(simulated_shared_ram, base, head, size) = d[1]
    /\ Payload(simulated_shared_ram, base, head, size, d[1]) = Data[d]

\* C19: with every buffer store, register write and register read a step of
\* its own, a producer writes its head register only when the header and the
\* payload of the frame are in the ring, and no step changes a byte between
\* a consumer's published tail and the producer's published head: those
\* bytes are final, and the bytes a consumer has yet to read are not
\* overwritten.
C19_PublishedBytesAreFinal ==
    [][/\ Reg(CHIP_REG_HOST_TX_HEAD_PUB)' # Reg(CHIP_REG_HOST_TX_HEAD_PUB)
              => Stored(tx_buffer_ptr, host_tx_head, TX_BUFFER_SIZE, sent'[Len(sent')])
       /\ Reg(CHIP_REG_RX_HEAD_PTR)' # Reg(CHIP_REG_RX_HEAD_PTR)
              => Stored(rx_buffer_ptr, chip_rx_head, RX_BUFFER_SIZE,
                        rx_produced'[Len(rx_produced')])
       /\ Keeps(tx_buffer_ptr,
                Region(Reg(CHIP_REG_TX_TAIL_PTR), Reg(CHIP_REG_HOST_TX_HEAD_PUB),
                       TX_BUFFER_SIZE))
       /\ Keeps(rx_buffer_ptr,
                Region(Reg(CHIP_REG_HOST_RX_TAIL_PUB), Reg(CHIP_REG_RX_HEAD_PTR),
                       RX_BUFFER_SIZE))]_vars


\* total_write_len of host_chip_send_packet, a uint32_t.
TotalWriteLen(len) == len + PACKET_LENGTH_FIELD_SIZE

\* The uint32_t sum len + 2 is the mathematical sum: the addition did not
\* carry out of 32 bits, so the sum is above len as an unsigned value.
SumIsExact(len) == GtU32(TotalWriteLen(len), len)

\* C23: for every uint32_t length passed to host_chip_send_packet the frame
\* size it computes is the mathematical len + 2, its size check answers -1
\* for exactly the lengths with len + 2 > TX_BUFFER_SIZE, and the 16-bit
\* header it stores for a length it accepts is len.
C23_FrameSizeIsExact ==
    [][\A d \in TxInputs :
          host_chip_send_packet(d[1], d[2]) =>
              /\ SumIsExact(d[1])
              /\ (SendReturn(d[1]) = 0 - 1) <=> ExceedsBuffer(d[1])
              /\ SendReturn(d[1]) = 0 =>
                     LoadU16(simulated_shared_ram', tx_buffer_ptr + host_tx_head)
                         = d[1]]_vars


\* A step of host_chip_send_packet, and the send being between two steps.
SendStep == SendBegin(1, 7) \/ SendHeader \/ SendCopyByte \/ SendPublish
InSend == host_op.pc \in {"send_header", "send_copy", "send_publish"}

\* The shared RAM once the send in progress has done the stores it has left:
\* its payload bytes from k on, after the header if that is still to store.
RECURSIVE CopyRest(_, _)
CopyRest(ram, k) ==
    IF k >= host_op.len
    THEN ram
    ELSE CopyRest(StoreU8(ram,
                          tx_buffer_ptr + CopyOffset(host_tx_head, TX_BUFFER_SIZE,
                                                     host_op.len, k),
                          Data[<<host_op.len, host_op.seed>>][k + 1]),
                  k + 1)

FinishSend ==
    IF host_op.pc = "send_header"
    THEN CopyRest(StoreU16(simulated_shared_ram, tx_buffer_ptr + host_tx_head,
                           host_op.len % UINT16), 0)
    ELSE CopyRest(simulated_shared_ram, host_op.i)

\* The value host_chip_irq_handler leaves in host_rx_tail and
\* HOST_RX_TAIL_PUB when it runs on this shared RAM and the current registers.
IrqRxTail(ram) ==
    IF BitIsSet(Reg(CHIP_REG_INT_STATUS), CHIP_INT_RX_DATA_READY_BIT)
    THEN DrainLoop(ram, host_rx_tail, Reg(CHIP_REG_RX_HEAD_PTR), << >>).tail
    ELSE host_rx_tail

\* C21: a step of host_chip_send_packet changes neither host_rx_tail nor
\* HOST_RX_TAIL_PUB nor a byte of the RX ring; host_chip_irq_handler changes
\* neither host_tx_head nor HOST_TX_HEAD_PUB nor a byte of the TX ring; and
\* between any two steps of a send the handler leaves the RX indices at the
\* value it would leave them at after the send.
C21_HostContextsIndependent ==
    [][/\ SendStep =>
              /\ host_rx_tail' = host_rx_tail
              /\ Reg(CHIP_REG_HOST_RX_TAIL_PUB)' = Reg(CHIP_REG_HOST_RX_TAIL_PUB)
              /\ Keeps(rx_buffer_ptr, 0..(RX_BUFFER_SIZE - 1))
       /\ host_chip_irq_handler =>
              /\ host_tx_head' = host_tx_head
              /\ Reg(CHIP_REG_HOST_TX_HEAD_PUB)' = Reg(CHIP_REG_HOST_TX_HEAD_PUB)
              /\ Keeps(tx_buffer_ptr, 0..(TX_BUFFER_SIZE - 1))
       /\ InSend => IrqRxTail(simulated_shared_ram) = IrqRxTail(FinishSend)]_vars


\* C22: with host_chip_irq_handler called again and again, the HOST
\* eventually drains every frame the CHIP has published into the RX ring:
\* once the CHIP has published k frames, the HOST gets to hand up k frames,
\* moving HOST_RX_TAIL_PUB past the k-th, also when the CHIP produces
\* nothing more and the fill level is below RX_HIGH_WATERMARK_THRESHOLD.
\* (Runs in which a copy of host_chip_send_packet has run off the shared RAM
\* are left aside: there the program is dead.)
C22_PublishedFramesAreDrained ==
    \A k \in 1..MaxFrames :
        (Len(rx_produced) >= k) ~>
            (Len(rx_delivered) >= k \/ fault)

====
